---- MODULE Spec2Model ----
(***************************************************************************)
(* Lane inference and the RoadSpec codec of                                *)
(* map_model/src/make/initial/lane_specs.rs.                               *)
(*                                                                         *)
(* Text is modelled as a sequence of pieces.  The strings the codec and    *)
(* the integer parser scan are sequences of one-character strings; the     *)
(* highway value, of which the code reads equality and the "_link" suffix, *)
(* is a sequence whose last piece is that suffix when it has one.  Tag     *)
(* values the code only compares for equality are TLA+ strings.            *)
(* Option<T> is a sequence of length at most one.                          *)
(***************************************************************************)
EXTENDS Integers, Sequences, FiniteSets, TLC

VARIABLES pc, osm_tags, ret, s, spec, text, parsed

vars == <<pc, osm_tags, ret, s, spec, text, parsed>>

-----------------------------------------------------------------------------
(* Bounds of the checked inputs *)

MaxLanes == 3

MaxStrLen == 4

MaxSideLen == 2

-----------------------------------------------------------------------------
(* Option, Vec and iterator helpers *)

None == <<>>

Some(x) == <<x>>

is_some(o) == o /= None

unwrap(o) == o[1]

repeat_take(x, n) == [i \in 1..n |-> x]

pop(v) == IF v = <<>> THEN v ELSE SubSeq(v, 1, Len(v) - 1)

push(v, x) == Append(v, x)

LaneType == {"Driving", "Parking", "Sidewalk", "Biking", "Bus"}

-----------------------------------------------------------------------------
(* RoadSpec codec *)

RoadSpec(fwd, back) == [fwd |-> fwd, back |-> back]

lt_to_char_bus_as_b(lt) ==
    CASE lt = "Driving" -> "d"
      [] lt = "Parking" -> "p"
      [] lt = "Sidewalk" -> "s"
      [] lt = "Biking" -> "b"
      [] lt = "Bus" -> "b"

lt_to_char(lt) ==
    CASE lt = "Driving" -> "d"
      [] lt = "Parking" -> "p"
      [] lt = "Sidewalk" -> "s"
      [] lt = "Biking" -> "b"
      [] lt = "Bus" -> "u"

char_to_lt(c) ==
    CASE c = "d" -> Some("Driving")
      [] c = "p" -> Some("Parking")
      [] c = "s" -> Some("Sidewalk")
      [] c = "b" -> Some("Biking")
      [] c = "u" -> Some("Bus")
      [] OTHER -> None

fmt(rs) ==
    [i \in 1..Len(rs.fwd) |-> lt_to_char(rs.fwd[i])]
        \o <<"/">>
        \o [i \in 1..Len(rs.back) |-> lt_to_char(rs.back[i])]

parse_finish_any_slash(fwd, back, seen_slash) ==
    IF seen_slash THEN Some(RoadSpec(fwd, back)) ELSE None

parse_finish(fwd, back, seen_slash) ==
    IF seen_slash /\ (Len(fwd) + Len(back)) > 0
    THEN Some(RoadSpec(fwd, back))
    ELSE None

RECURSIVE parse_loop(_, _, _, _, _)
parse_loop(str, i, fwd, back, seen_slash) ==
    IF i > Len(str) THEN parse_finish(fwd, back, seen_slash)
    ELSE LET c == str[i] IN
         IF ~seen_slash /\ c = "/"
         THEN parse_loop(str, i + 1, fwd, back, TRUE)
         ELSE IF is_some(char_to_lt(c))
         THEN LET lt == unwrap(char_to_lt(c)) IN
              IF seen_slash
              THEN parse_loop(str, i + 1, fwd, push(back, lt), seen_slash)
              ELSE parse_loop(str, i + 1, push(fwd, lt), back, seen_slash)
         ELSE None

parse(str) == parse_loop(str, 1, <<>>, <<>>, FALSE)

-----------------------------------------------------------------------------
(* str::parse::<usize>().ok(): an optional leading "+", then one or more   *)
(* decimal digits.  A sign alone, a "-", an empty string or any other      *)
(* character is an error, which .ok() turns into None.  Values that do not *)
(* fit usize are an error too; the tag values checked here have at most    *)
(* two characters and always fit.                                          *)

Digits == <<"0", "1", "2", "3", "4", "5", "6", "7", "8", "9">>

is_digit(c) == \E d \in 1..Len(Digits) : Digits[d] = c

digit_value(c) == (CHOOSE d \in 1..Len(Digits) : Digits[d] = c) - 1

RECURSIVE parse_digits(_, _, _)
parse_digits(str, i, acc) ==
    IF i > Len(str) THEN Some(acc)
    ELSE IF is_digit(str[i])
    THEN parse_digits(str, i + 1, acc * 10 + digit_value(str[i]))
    ELSE None

parse_usize(str) ==
    IF str = <<>> THEN None
    ELSE IF Len(str) = 1 /\ str[1] \in {"+", "-"} THEN None
    ELSE IF str[1] = "+" THEN parse_digits(str, 2, 0)
    ELSE parse_digits(str, 1, 0)

-----------------------------------------------------------------------------
(* get_lane_types.  osm_tags is a record with one field per key the code   *)
(* reads, holding Option<value>: SYNTHETIC_LANES, PARKING_LANE_FWD,        *)
(* PARKING_LANE_BACK and HIGHWAY stand for the keys named by the osm::     *)
(* constants; lanes_forward, lanes_backward, bus_lanes, cycleway_right and *)
(* cycleway_left for "lanes:forward", "lanes:backward", "bus:lanes",       *)
(* "cycleway:right" and "cycleway:left".                                   *)

Returned(fwd, back) == [status |-> "ok", fwd |-> fwd, back |-> back]

Panicked == [status |-> "panic", fwd |-> <<>>, back |-> <<>>]

Sides(fwd, back) == [fwd |-> fwd, back |-> back]

ends_with_link(hwy) == hwy /= <<>> /\ hwy[Len(hwy)] = "_link"

override_lanes(tags) ==
    LET str == unwrap(tags.SYNTHETIC_LANES) IN
    IF is_some(parse(str))
    THEN Returned(unwrap(parse(str)).fwd, unwrap(parse(str)).back)
    ELSE Panicked

special_case_footway_first(tags) ==
    IF tags.HIGHWAY = Some(<<"footway">>)
    THEN Some(Sides(<<"Sidewalk">>, <<>>))
    ELSE IF tags.junction = Some("roundabout")
    THEN Some(Sides(<<"Driving", "Sidewalk">>, <<>>))
    ELSE None

special_case(tags) ==
    IF tags.junction = Some("roundabout")
    THEN Some(Sides(<<"Driving", "Sidewalk">>, <<>>))
    ELSE IF tags.HIGHWAY = Some(<<"footway">>)
    THEN Some(Sides(<<"Sidewalk">>, <<>>))
    ELSE None

is_oneway(tags) ==
    tags.oneway = Some("yes") \/ tags.oneway = Some("reversible")

lanes_tag(num) == IF is_some(num) THEN parse_usize(unwrap(num)) ELSE None

num_driving_fwd_round_up(tags, oneway) ==
    IF is_some(lanes_tag(tags.lanes_forward))
    THEN unwrap(lanes_tag(tags.lanes_forward))
    ELSE IF is_some(lanes_tag(tags.lanes))
    THEN LET n == unwrap(lanes_tag(tags.lanes)) IN
         IF oneway THEN n
         ELSE (n + 1) \div 2
    ELSE 1

num_driving_fwd(tags, oneway) ==
    IF is_some(lanes_tag(tags.lanes_forward))
    THEN unwrap(lanes_tag(tags.lanes_forward))
    ELSE IF is_some(lanes_tag(tags.lanes))
    THEN LET n == unwrap(lanes_tag(tags.lanes)) IN
         IF oneway THEN n
         ELSE IF n % 2 = 0 THEN n \div 2
         ELSE IF n \div 2 > 1 THEN n \div 2 ELSE 1
    ELSE 1

num_driving_back(tags, oneway) ==
    IF is_some(lanes_tag(tags.lanes_backward))
    THEN unwrap(lanes_tag(tags.lanes_backward))
    ELSE IF is_some(lanes_tag(tags.lanes))
    THEN LET n == unwrap(lanes_tag(tags.lanes)) IN
         IF oneway THEN 0
         ELSE IF n % 2 = 0 THEN n \div 2
         ELSE IF n \div 2 > 1 THEN n \div 2 ELSE 1
    ELSE IF oneway THEN 0 ELSE 1

driving_lanes(tags, oneway) ==
    Sides(repeat_take("Driving", num_driving_fwd(tags, oneway)),
          repeat_take("Driving", num_driving_back(tags, oneway)))

bus_lanes_first_lane(tags, sides) ==
    IF is_some(tags.bus_lanes)
    THEN Sides(<<"Bus">> \o pop(sides.fwd),
               IF sides.back /= <<>>
               THEN <<"Bus">> \o pop(sides.back)
               ELSE sides.back)
    ELSE sides

bus_lanes(tags, sides) ==
    IF is_some(tags.bus_lanes)
    THEN Sides(push(pop(sides.fwd), "Bus"),
               IF sides.back /= <<>>
               THEN push(pop(sides.back), "Bus")
               ELSE sides.back)
    ELSE sides

bike_lanes(tags, sides) ==
    IF tags.cycleway = Some("lane")
    THEN Sides(push(sides.fwd, "Biking"),
               IF sides.back /= <<>>
               THEN push(sides.back, "Biking")
               ELSE sides.back)
    ELSE Sides(IF tags.cycleway_right = Some("lane")
               THEN push(sides.fwd, "Biking")
               ELSE sides.fwd,
               IF tags.cycleway_left = Some("lane")
               THEN push(sides.back, "Biking")
               ELSE sides.back)

definitely_no_parking(tags) ==
    IF is_some(tags.HIGHWAY)
    THEN LET hwy == unwrap(tags.HIGHWAY) IN
         ends_with_link(hwy) \/ hwy = <<"motorway">>
    ELSE FALSE

parking_lanes(tags, sides) ==
    LET parking_lane_fwd == tags.PARKING_LANE_FWD = Some("true")
        parking_lane_back == tags.PARKING_LANE_BACK = Some("true")
    IN Sides(IF parking_lane_fwd /\ ~definitely_no_parking(tags)
             THEN push(sides.fwd, "Parking")
             ELSE sides.fwd,
             IF parking_lane_back /\ ~definitely_no_parking(tags)
                /\ sides.back /= <<>>
             THEN push(sides.back, "Parking")
             ELSE sides.back)

has_sidewalk_unless_motorway(tags) ==
    tags.HIGHWAY /= Some(<<"motorway">>)

has_sidewalk(tags) ==
    /\ tags.HIGHWAY /= Some(<<"motorway">>)
    /\ tags.HIGHWAY /= Some(<<"motorway", "_link">>)

sidewalks_both_sides(tags, oneway, sides) ==
    IF has_sidewalk(tags)
    THEN Sides(push(sides.fwd, "Sidewalk"), push(sides.back, "Sidewalk"))
    ELSE sides

sidewalks(tags, oneway, sides) ==
    IF has_sidewalk(tags)
    THEN Sides(push(sides.fwd, "Sidewalk"),
               IF oneway
               THEN IF \/ tags.HIGHWAY = Some(<<"residential">>)
                       \/ tags.sidewalk = Some("both")
                    THEN push(sides.back, "Sidewalk")
                    ELSE sides.back
               ELSE push(sides.back, "Sidewalk"))
    ELSE sides

infer_lanes(tags) ==
    IF is_some(special_case(tags))
    THEN unwrap(special_case(tags))
    ELSE LET oneway == is_oneway(tags) IN
         sidewalks(tags, oneway,
             parking_lanes(tags,
                 bike_lanes(tags,
                     bus_lanes(tags,
                         driving_lanes(tags, oneway)))))

get_lane_types_override_last(tags) ==
    IF is_some(special_case(tags))
    THEN Returned(infer_lanes(tags).fwd, infer_lanes(tags).back)
    ELSE IF is_some(tags.SYNTHETIC_LANES)
    THEN override_lanes(tags)
    ELSE Returned(infer_lanes(tags).fwd, infer_lanes(tags).back)

get_lane_types(tags) ==
    IF is_some(tags.SYNTHETIC_LANES)
    THEN override_lanes(tags)
    ELSE Returned(infer_lanes(tags).fwd, infer_lanes(tags).back)

-----------------------------------------------------------------------------
(* Inputs of the checked calls *)

SeqsUpTo(S, n) == UNION {[1..k -> S] : k \in 0..n}

Opt(S) == {None} \cup {Some(v) : v \in S}

DecStr(n) ==
    IF n < 10 THEN <<Digits[n + 1]>>
    ELSE <<Digits[(n \div 10) + 1], Digits[(n % 10) + 1]>>

Chars == {"d", "p", "s", "b", "u", "/", "x"}

Strings == SeqsUpTo(Chars, MaxStrLen)

RoadSpecs ==
    {RoadSpec(f, b) : f \in SeqsUpTo(LaneType, MaxSideLen),
                      b \in SeqsUpTo(LaneType, MaxSideLen)}

LanesValues == {DecStr(n) : n \in 0..MaxLanes} \cup {<<"x">>}

DirLanesValues == {<<"0">>, <<"+", "2">>, <<"-", "1">>}

HighwayValues ==
    {<<"motorway">>, <<"motorway", "_link">>, <<"residential">>,
     <<"primary", "_link">>}

SyntheticValues == {<<"d", "s", "/", "s">>, <<"d", "/", "/", "x">>, <<"/">>}

InferTagSets ==
    [SYNTHETIC_LANES : {None},
     junction : {None},
     HIGHWAY : Opt(HighwayValues),
     oneway : Opt({"yes", "reversible", "no"}),
     lanes : Opt(LanesValues),
     lanes_forward : Opt(DirLanesValues),
     lanes_backward : Opt(DirLanesValues),
     bus_lanes : Opt({"yes"}),
     cycleway : Opt({"lane"}),
     cycleway_right : Opt({"lane"}),
     cycleway_left : Opt({"lane"}),
     PARKING_LANE_FWD : Opt({"true"}),
     PARKING_LANE_BACK : Opt({"true"}),
     sidewalk : Opt({"both"})]

SpecialTagSets ==
    [SYNTHETIC_LANES : {None},
     junction : Opt({"roundabout"}),
     HIGHWAY : Opt(HighwayValues \cup {<<"footway">>}),
     oneway : Opt({"yes", "no"}),
     lanes : Opt({<<"2">>}),
     lanes_forward : Opt({<<"0">>}),
     lanes_backward : Opt({<<"2">>}),
     bus_lanes : Opt({"yes"}),
     cycleway : Opt({"lane", "track"}),
     cycleway_right : Opt({"lane"}),
     cycleway_left : Opt({"lane"}),
     PARKING_LANE_FWD : Opt({"true", "false"}),
     PARKING_LANE_BACK : Opt({"true", "false"}),
     sidewalk : Opt({"both"})]

OverrideTagSets ==
    [SYNTHETIC_LANES : {Some(v) : v \in SyntheticValues},
     junction : Opt({"roundabout"}),
     HIGHWAY : Opt({<<"footway">>}),
     oneway : Opt({"yes"}),
     lanes : Opt({<<"2">>}),
     lanes_forward : Opt({<<"0">>}),
     lanes_backward : Opt({<<"2">>}),
     bus_lanes : Opt({"yes"}),
     cycleway : Opt({"lane"}),
     cycleway_right : Opt({"lane"}),
     cycleway_left : Opt({"lane"}),
     PARKING_LANE_FWD : Opt({"true"}),
     PARKING_LANE_BACK : Opt({"true"}),
     sidewalk : Opt({"both"})]

NoTags ==
    [SYNTHETIC_LANES |-> None, junction |-> None, HIGHWAY |-> None,
     oneway |-> None, lanes |-> None, lanes_forward |-> None,
     lanes_backward |-> None, bus_lanes |-> None, cycleway |-> None,
     cycleway_right |-> None, cycleway_left |-> None,
     PARKING_LANE_FWD |-> None, PARKING_LANE_BACK |-> None,
     sidewalk |-> None]

Pending == [status |-> "pending", fwd |-> <<>>, back |-> <<>>]

-----------------------------------------------------------------------------
(* Calls of get_lane_types on one tag set *)

Init ==
    /\ pc = "call"
    /\ osm_tags \in InferTagSets \cup SpecialTagSets \cup OverrideTagSets
    /\ ret = Pending
    /\ s = <<>>
    /\ spec = RoadSpec(<<>>, <<>>)
    /\ text = <<>>
    /\ parsed = None

GetLaneTypes ==
    /\ pc = "call"
    /\ ret' = get_lane_types(osm_tags)
    /\ pc' = IF ret'.status = "panic" THEN "panicked" ELSE "returned"
    /\ UNCHANGED <<osm_tags, s, spec, text, parsed>>

Next == GetLaneTypes

Spec == Init /\ [][Next]_vars

-----------------------------------------------------------------------------
(* Calls of the codec: RoadSpec::parse on a string, and Display on a lane  *)
(* layout followed by RoadSpec::parse on the text it wrote                 *)

CodecInit ==
    /\ osm_tags = NoTags
    /\ ret = Pending
    /\ text = <<>>
    /\ parsed = None
    /\ \/ pc = "parse" /\ s \in Strings /\ spec = RoadSpec(<<>>, <<>>)
       \/ pc = "fmt" /\ s = <<>> /\ spec \in RoadSpecs

Parse ==
    /\ pc = "parse"
    /\ parsed' = parse(s)
    /\ pc' = "parsed"
    /\ UNCHANGED <<osm_tags, ret, s, spec, text>>

Display ==
    /\ pc = "fmt"
    /\ text' = fmt(spec)
    /\ pc' = "formatted"
    /\ UNCHANGED <<osm_tags, ret, s, spec, parsed>>

ParseText ==
    /\ pc = "formatted"
    /\ parsed' = parse(text)
    /\ pc' = "reparsed"
    /\ UNCHANGED <<osm_tags, ret, s, spec, text>>

CodecNext == Parse \/ Display \/ ParseText

CodecSpec == CodecInit /\ [][CodecNext]_vars

-----------------------------------------------------------------------------
(* Vocabulary of the properties *)

Count(v, x) == Cardinality({i \in 1..Len(v) : v[i] = x})

Has(v, x) == \E i \in 1..Len(v) : v[i] = x

NoOverride == osm_tags.SYNTHETIC_LANES = None

Roundabout == osm_tags.junction = Some("roundabout")

Footway == osm_tags.HIGHWAY = Some(<<"footway">>)

Motorway ==
    osm_tags.HIGHWAY \in {Some(<<"motorway">>), Some(<<"motorway", "_link">>)}

OnewayTag == osm_tags.oneway \in {Some("yes"), Some("reversible")}

Inferred == pc = "returned" /\ NoOverride /\ ~Roundabout /\ ~Footway

LaneChars == {"d", "p", "s", "b", "u"}

Image(c) ==
    CASE c = "d" -> "Driving"
      [] c = "p" -> "Parking"
      [] c = "s" -> "Sidewalk"
      [] c = "b" -> "Biking"
      [] c = "u" -> "Bus"

InGrammar(str) ==
    /\ Cardinality({i \in 1..Len(str) : str[i] = "/"}) = 1
    /\ \A i \in 1..Len(str) : str[i] \in LaneChars \cup {"/"}
    /\ Len(str) >= 2

GrammarLayout(str) ==
    LET slash == CHOOSE i \in 1..Len(str) : str[i] = "/" IN
    RoadSpec([i \in 1..(slash - 1) |-> Image(str[i])],
             [i \in 1..(Len(str) - slash) |-> Image(str[slash + i])])

Rank(lt) ==
    CASE lt = "Driving" -> 0
      [] lt = "Bus" -> 1
      [] lt = "Biking" -> 2
      [] lt = "Parking" -> 3
      [] lt = "Sidewalk" -> 4

CenterToEdge(v) ==
    /\ \A i, j \in 1..Len(v) : i < j => Rank(v[i]) <= Rank(v[j])
    /\ \A lt \in {"Bus", "Biking", "Parking", "Sidewalk"} : Count(v, lt) <= 1

SplitLanes(n) ==
    IF n % 2 = 0 THEN n \div 2 ELSE IF n \div 2 >= 1 THEN n \div 2 ELSE 1

ExpectedDrivingFwd ==
    IF is_some(lanes_tag(osm_tags.lanes_forward))
    THEN unwrap(lanes_tag(osm_tags.lanes_forward))
    ELSE IF is_some(lanes_tag(osm_tags.lanes))
    THEN IF OnewayTag
         THEN unwrap(lanes_tag(osm_tags.lanes))
         ELSE SplitLanes(unwrap(lanes_tag(osm_tags.lanes)))
    ELSE 1

ExpectedDrivingBack ==
    IF is_some(lanes_tag(osm_tags.lanes_backward))
    THEN unwrap(lanes_tag(osm_tags.lanes_backward))
    ELSE IF is_some(lanes_tag(osm_tags.lanes))
    THEN IF OnewayTag
         THEN 0
         ELSE SplitLanes(unwrap(lanes_tag(osm_tags.lanes)))
    ELSE IF OnewayTag THEN 0 ELSE 1

EndsWithOneSidewalk(v) ==
    Count(v, "Sidewalk") = 1 /\ v[Len(v)] = "Sidewalk"

-----------------------------------------------------------------------------
(* C1, as claimed: for every lane layout, both sides empty included,       *)
(* parsing the text Display writes succeeds and returns the same forward   *)
(* and backward sequences.                                                 *)
C1_RoundTripEveryLayout ==
    pc = "reparsed" => parsed = Some(spec)

(* C1, amended: for every lane layout with at least one lane in total,     *)
(* parsing the text Display writes succeeds and returns the same forward   *)
(* and backward sequences in the same order; for the layout with both      *)
(* sides empty Display writes "/" and parsing it returns None.             *)
C1_RoundTripNonEmptyLayout ==
    pc = "reparsed" =>
        IF Len(spec.fwd) + Len(spec.back) > 0
        THEN parsed = Some(spec)
        ELSE text = <<"/">> /\ parsed = None

C1_Witness ==
    /\ pc = "reparsed"
    /\ spec.fwd = <<>>
    /\ spec.back = <<"Bus", "Biking">>
    /\ text = <<"/", "u", "b">>
    /\ parsed = Some(spec)

(* C2: parse returns a layout exactly for the strings made of lane         *)
(* characters, one "/", and lane characters, with at least one lane        *)
(* character in total, and then returns the images of the characters       *)
(* before and after the "/" in order; every other string gives None.       *)
C2_ParseAcceptsExactlyGrammar ==
    pc = "parsed" =>
        IF InGrammar(s)
        THEN parsed = Some(GrammarLayout(s))
        ELSE parsed = None

C2_Witness ==
    /\ pc = "parsed"
    /\ s = <<"u", "/", "b", "p">>
    /\ parsed = Some(RoadSpec(<<"Bus">>, <<"Biking", "Parking">>))

(* C3: when the synthetic-lanes key is present, the call returns exactly   *)
(* the layout its value decodes to, whatever the other tags are, and       *)
(* panics when the value does not decode.                                  *)
C3_OverridePrecedence ==
    (pc /= "call" /\ ~NoOverride) =>
        LET decoded == parse(unwrap(osm_tags.SYNTHETIC_LANES)) IN
        IF is_some(decoded)
        THEN /\ pc = "returned"
             /\ ret = Returned(unwrap(decoded).fwd, unwrap(decoded).back)
        ELSE pc = "panicked"

C3_Witness ==
    /\ pc = "returned"
    /\ osm_tags.SYNTHETIC_LANES = Some(<<"d", "s", "/", "s">>)
    /\ Roundabout
    /\ Footway
    /\ is_some(osm_tags.bus_lanes)
    /\ ret = Returned(<<"Driving", "Sidewalk">>, <<"Sidewalk">>)

(* C4: without the synthetic-lanes key, junction=roundabout gives          *)
(* forward [Driving, Sidewalk] and backward [] whatever the other tags     *)
(* are, and otherwise highway=footway gives forward [Sidewalk] and         *)
(* backward [] whatever the other tags are.                                *)
C4_SpecialCasesFirstMatch ==
    (pc /= "call" /\ NoOverride) =>
        /\ Roundabout => ret = Returned(<<"Driving", "Sidewalk">>, <<>>)
        /\ (~Roundabout /\ Footway) => ret = Returned(<<"Sidewalk">>, <<>>)

C4_Witness ==
    /\ pc = "returned"
    /\ NoOverride
    /\ Roundabout
    /\ Footway
    /\ is_some(osm_tags.bus_lanes)
    /\ osm_tags.PARKING_LANE_FWD = Some("true")
    /\ ret = Returned(<<"Driving", "Sidewalk">>, <<>>)

(* C5, as claimed: without the synthetic-lanes key, when highway is        *)
(* motorway or motorway_link neither sequence holds a Sidewalk or a        *)
(* Parking entry, whatever the other tags (junction included) are.         *)
C5_MotorwayNoSidewalkNoParking ==
    (pc /= "call" /\ NoOverride /\ Motorway) =>
        /\ ~Has(ret.fwd, "Sidewalk") /\ ~Has(ret.fwd, "Parking")
        /\ ~Has(ret.back, "Sidewalk") /\ ~Has(ret.back, "Parking")

(* C5, amended: without the synthetic-lanes key and when junction is not   *)
(* roundabout, a highway of motorway or motorway_link has no Sidewalk and  *)
(* no Parking entry in either sequence, whatever the other tags are; on a  *)
(* roundabout the forward sequence is [Driving, Sidewalk] all the same.    *)
C5_MotorwayOffRoundabout ==
    (pc /= "call" /\ NoOverride /\ Motorway) =>
        IF Roundabout
        THEN ret = Returned(<<"Driving", "Sidewalk">>, <<>>)
        ELSE /\ pc = "returned"
             /\ ~Has(ret.fwd, "Sidewalk") /\ ~Has(ret.fwd, "Parking")
             /\ ~Has(ret.back, "Sidewalk") /\ ~Has(ret.back, "Parking")

C5_Witness ==
    /\ pc = "returned"
    /\ NoOverride
    /\ ~Roundabout
    /\ osm_tags.HIGHWAY = Some(<<"motorway", "_link">>)
    /\ osm_tags.PARKING_LANE_FWD = Some("true")
    /\ osm_tags.PARKING_LANE_BACK = Some("true")
    /\ osm_tags.sidewalk = Some("both")
    /\ ret = Returned(<<"Driving", "Biking">>, <<"Driving", "Biking">>)

(* C6: without the synthetic-lanes key, each returned sequence is zero or  *)
(* more Driving, then at most one Bus, then at most one Biking, then at    *)
(* most one Parking, then at most one Sidewalk.                            *)
C6_CenterToEdgeOrder ==
    (pc /= "call" /\ NoOverride) =>
        /\ pc = "returned"
        /\ CenterToEdge(ret.fwd)
        /\ CenterToEdge(ret.back)

C6_Witness ==
    /\ pc = "returned"
    /\ NoOverride
    /\ ret.fwd = <<"Driving", "Bus", "Biking", "Parking", "Sidewalk">>
    /\ ret.back = <<"Driving", "Bus", "Biking", "Parking", "Sidewalk">>

(* C7: with no synthetic-lanes key, no roundabout, no footway and no       *)
(* bus:lanes tag, forward holds lanes:forward Driving entries when that    *)
(* tag parses, else n, n/2 or max(n div 2, 1) for lanes = n (one-way,      *)
(* even, odd), else 1; backward holds lanes:backward Driving entries when  *)
(* that tag parses, else 0, n/2 or max(n div 2, 1), else 0 if one-way and  *)
(* 1 if not; an unparseable count counts as absent and nothing fails.      *)
C7_DrivingLaneCounts ==
    (pc /= "call" /\ NoOverride /\ ~Roundabout /\ ~Footway
        /\ osm_tags.bus_lanes = None) =>
        /\ pc = "returned"
        /\ Count(ret.fwd, "Driving") = ExpectedDrivingFwd
        /\ Count(ret.back, "Driving") = ExpectedDrivingBack

C7_Witness ==
    /\ Inferred
    /\ osm_tags.bus_lanes = None
    /\ osm_tags.oneway = None
    /\ osm_tags.lanes = Some(<<"3">>)
    /\ osm_tags.lanes_forward = Some(<<"-", "1">>)
    /\ osm_tags.lanes_backward = None
    /\ Count(ret.fwd, "Driving") = 1
    /\ Count(ret.back, "Driving") = 1

(* C8, as claimed: with a bus:lanes key (no synthetic-lanes key, no        *)
(* roundabout, no footway) the Driving plus Bus entries of forward number  *)
(* the forward driving count of step 3, also when that count is 0, and     *)
(* backward is changed the same way only when it has driving lanes.        *)
C8_BusLaneReplacesDriving ==
    (Inferred /\ is_some(osm_tags.bus_lanes)) =>
        /\ Count(ret.fwd, "Driving") + Count(ret.fwd, "Bus")
               = num_driving_fwd(osm_tags, is_oneway(osm_tags))
        /\ Count(ret.back, "Driving") + Count(ret.back, "Bus")
               = num_driving_back(osm_tags, is_oneway(osm_tags))
        /\ Count(ret.back, "Bus")
               = IF num_driving_back(osm_tags, is_oneway(osm_tags)) > 0
                 THEN 1 ELSE 0

(* C9, as claimed: without the synthetic-lanes key, a backward sequence    *)
(* holding a Parking entry also holds a Driving or a Bus entry, the        *)
(* backward parking flag is "true", and highway neither ends with _link    *)
(* nor equals motorway.                                                    *)
C9_BackwardParkingNeedsDriving ==
    (pc = "returned" /\ NoOverride /\ Has(ret.back, "Parking")) =>
        /\ Has(ret.back, "Driving") \/ Has(ret.back, "Bus")
        /\ osm_tags.PARKING_LANE_BACK = Some("true")
        /\ ~definitely_no_parking(osm_tags)

(* C10: with no synthetic-lanes key, no roundabout and no footway, forward *)
(* ends with exactly one Sidewalk iff highway is neither motorway nor      *)
(* motorway_link, and backward ends with exactly one Sidewalk iff highway  *)
(* is neither of these and the road is not one-way, or is residential, or  *)
(* has sidewalk=both; a side without that Sidewalk holds none.             *)
C10_SidewalkPlacement ==
    (pc /= "call" /\ NoOverride /\ ~Roundabout /\ ~Footway) =>
        /\ pc = "returned"
        /\ IF ~Motorway
           THEN EndsWithOneSidewalk(ret.fwd)
           ELSE ~Has(ret.fwd, "Sidewalk")
        /\ IF /\ ~Motorway
              /\ \/ ~OnewayTag
                 \/ osm_tags.HIGHWAY = Some(<<"residential">>)
                 \/ osm_tags.sidewalk = Some("both")
           THEN EndsWithOneSidewalk(ret.back)
           ELSE ~Has(ret.back, "Sidewalk")

C10_Witness ==
    /\ Inferred
    /\ osm_tags.oneway = Some("yes")
    /\ osm_tags.HIGHWAY = Some(<<"residential">>)
    /\ osm_tags.sidewalk = None
    /\ ret.back = <<"Sidewalk">>
    /\ ret.fwd = <<"Driving", "Driving", "Driving", "Sidewalk">>

====
